---- MODULE Spec2Model ----
(***************************************************************************)
(* State-machine model of StockAnalysisApp (src/src/App.jsx): the React    *)
(* state of the component, the fetch calls that are in flight and the      *)
(* handlers that react to user events, timer ticks and settled fetches.    *)
(*                                                                         *)
(* Conventions.  Every handler runs to completion (JavaScript is           *)
(* single-threaded) and React re-renders before the next event, so each    *)
(* action reads the rendered state and writes the next one.  A settled     *)
(* fetch and the parse of its body are one step: the handler changes no    *)
(* state between the two awaits.  State updater functions are invoked once *)
(* per update (a production build; React.StrictMode of a development build *)
(* is not part of App.jsx).  The warning-sign emoji that prefixes two of   *)
(* the error messages is left out of the message strings.                  *)
(***************************************************************************)
EXTENDS Integers, Sequences, FiniteSets, TLC

VARIABLES
    stockName,      \* useState('')     : text of the input box
    loading,        \* useState(false)  : an analyzeStock call is running
    analysis,       \* useState(null)   : the last analysis payload, or Absent
    error,          \* useState('')     : the error text shown, '' when none
    backendStatus,  \* useState(null)   : result of the /health probe
    rateLimit,      \* useState(null)   : result of the last /rate-limit probe
    countdown,      \* useState(0)      : seconds left of the cooldown
    mounted,        \* the startup effect has run
    healthFetches,  \* number of /health fetches in flight
    rateFetches,    \* /rate-limit fetches in flight, counted per caller
    analyzeCalls,   \* analyzeStock invocations that are suspended at an await
    event,          \* the step that led to this state (observation only)
    since           \* observation of the countdown since the last probe result

vars == << stockName, loading, analysis, error, backendStatus, rateLimit,
           countdown, mounted, healthFetches, rateFetches, analyzeCalls,
           event, since >>

-----------------------------------------------------------------------------
(* Bounds of the model *)

\* longest text typed into the input box
MaxLen == 2
\* largest seconds_remaining the /rate-limit endpoint answers with
MaxSeconds == 2
\* most /rate-limit fetches in flight when the Refresh button is clicked
MaxInFlight == 1

-----------------------------------------------------------------------------
(* Values *)

\* JavaScript null, where the other values are objects: an object without fields
Null == [null |-> TRUE]
\* JavaScript null or undefined, where the other values are strings
Absent == "absent"

\* obj?.field is defined
Has(obj, field) == field \in DOMAIN obj

\* characters the user types: a blank and a letter
Chars == {" ", "A"}

\* String.prototype.trim strips these (white space and line terminators)
WhiteSpace == {" ", "\t", "\n", "\r"}

RECURSIVE Strings(_)
Strings(n) ==
    IF n = 0 THEN {""}
    ELSE Strings(n - 1) \cup {s \o c : s \in Strings(n - 1), c \in Chars}

Inputs == Strings(MaxLen)

RECURSIVE TrimStart(_)
TrimStart(s) ==
    IF Len(s) = 0 THEN s
    ELSE IF SubSeq(s, 1, 1) \in WhiteSpace THEN TrimStart(SubSeq(s, 2, Len(s)))
    ELSE s

RECURSIVE TrimEnd(_)
TrimEnd(s) ==
    IF Len(s) = 0 THEN s
    ELSE IF SubSeq(s, Len(s), Len(s)) \in WhiteSpace
         THEN TrimEnd(SubSeq(s, 1, Len(s) - 1))
    ELSE s

\* String.prototype.trim
Trim(s) == TrimEnd(TrimStart(s))

\* String.prototype.includes
Includes(s, sub) ==
    \E i \in 1..(Len(s) - Len(sub) + 1) : SubSeq(s, i, i + Len(sub) - 1) = sub

-----------------------------------------------------------------------------
(* Messages *)

EmptyInputMessage == "Please enter a stock name"
GenericPrefix == "Analysis error occurred. "
UnreachableMessage == "Cannot connect to backend server. Is backend running?"
ApiKeyMessage == "API key not configured."
DefaultDetail == "Analysis failed"
UnavailableMessage == "Rate limit check unavailable"

\* err.message of a rejected fetch: Chromium's text and Firefox's text
TransportFailures ==
    {"Failed to fetch", "NetworkError when attempting to fetch resource."}

\* err.message of response.json() on a body that is not JSON
JsonFailure == "Unexpected token < in JSON at position 0"

\* the detail field of a non-success /analyze body
Details ==
    {Absent, "Rate limit exceeded", "API key missing", "Failed to fetch news",
     "Failed to fetch news: API key missing"}

\* response.status of /analyze
Statuses == {200, 429, 500}

\* the payload of a successful /analyze
Payload == "payload"

\* the message of a limited /rate-limit body
ServerMessage == "Too many requests"

\* bodies the /rate-limit endpoint answers with: limited, with every
\* seconds_remaining or without one; not limited, where the code reads no
\* other field, without seconds_remaining or with a positive one
RateLimitBodies ==
    { [is_limited |-> TRUE, message |-> ServerMessage],
      [is_limited |-> FALSE, message |-> Absent],
      [is_limited |-> FALSE, message |-> Absent, seconds_remaining |-> 1] }
    \cup
    { [is_limited |-> TRUE, message |-> ServerMessage, seconds_remaining |-> n] :
        n \in -1 .. MaxSeconds }

\* status field of a /health body
HealthStates == {"healthy", "degraded"}

\* the callers of checkRateLimit
Origins == {"startup", "expiry", "refresh", "analyze"}

-----------------------------------------------------------------------------
(* Pure parts of the handlers *)

\* the catch block of analyzeStock: the error text for a caught message
ErrorMessage(msg) ==
    IF Includes(msg, "Failed to fetch") THEN UnreachableMessage
    ELSE IF Includes(msg, "API key") THEN ApiKeyMessage
    ELSE GenericPrefix \o msg

\* variant of IsEmptyInput: the input is compared without trimming it
IsEmptyInputNoTrim(s) == s = ""

\* !stockName.trim()
IsEmptyInput(s) == Trim(s) = ""

\* JSON.stringify({ stock_name: stockName })
RequestBody(s) == [stock_name |-> s]

\* errorData.detail || 'Analysis failed'
ThrownMessage(detail) == IF detail = Absent THEN DefaultDetail ELSE detail

\* variant of ProbesRateLimit: a 429 triggers no probe
ProbesNever(status) == FALSE

\* variant of ProbesRateLimit: every non-success response triggers a probe
ProbesAnyFailure(status) == status # 200

\* response.status === 429
ProbesRateLimit(status) == status = 429

\* variant of IsLimited: a status that is not recorded yet counts as limited
IsLimitedOrUnknown(rl) ==
    IF Has(rl, "is_limited") THEN rl.is_limited ELSE TRUE

\* rateLimit?.is_limited
IsLimited(rl) == Has(rl, "is_limited") /\ rl.is_limited

\* backendStatus?.status
StatusOf(bs) == IF Has(bs, "status") THEN bs.status ELSE Absent

\* variant of ButtonDisabled: the rate limit does not disable the button
ButtonDisabledNoLimit(l, bs, rl) ==
    l \/ StatusOf(bs) # "healthy"

\* variant of ButtonDisabled: a running request does not disable the button
ButtonDisabledNoLoading(l, bs, rl) ==
    StatusOf(bs) # "healthy" \/ IsLimited(rl)

\* disabled={loading || backendStatus?.status !== 'healthy' || rateLimit?.is_limited}
ButtonDisabled(l, bs, rl) ==
    l \/ StatusOf(bs) # "healthy" \/ IsLimited(rl)

\* variant of KeyGate: the Enter key does not look at the health status
KeyGateNoHealth(l, bs, rl) ==
    ~l /\ ~IsLimited(rl)

\* !loading && backendStatus?.status === 'healthy' && !rateLimit?.is_limited
KeyGate(l, bs, rl) ==
    ~l /\ StatusOf(bs) = "healthy" /\ ~IsLimited(rl)

\* data.is_limited && data.seconds_remaining
StartsCountdown(data) ==
    /\ data.is_limited
    /\ Has(data, "seconds_remaining")
    /\ data.seconds_remaining # 0

\* variant of RateLimitOnFailure: a failed probe keeps the recorded status
RateLimitKept(prev) == prev

\* the catch block of checkRateLimit
RateLimitOnFailure(prev) ==
    [is_limited |-> FALSE, message |-> UnavailableMessage]

\* the catch block of checkBackendHealth
HealthOnFailure(msg) == [status |-> "offline", error |-> msg]

\* variant of Expired: the countdown expires one tick late
ExpiredLate(prev) == prev <= 0

\* prev <= 1 in the countdown updater
Expired(prev) == prev <= 1

\* the value the countdown updater returns
NextCountdown(prev) == IF Expired(prev) THEN 0 ELSE prev - 1

-----------------------------------------------------------------------------
(* Observation *)

NoEvent == [type |-> "none"]

NoCountdown == [from |-> 0, ticks |-> 0, probes |-> 0]

RateInFlight ==
    rateFetches["startup"] + rateFetches["expiry"]
        + rateFetches["refresh"] + rateFetches["analyze"]

Remove(seq, i) == SubSeq(seq, 1, i - 1) \o SubSeq(seq, i + 1, Len(seq))

-----------------------------------------------------------------------------
(* Initial state: the useState initial values, before the effects run *)

Init ==
    /\ stockName = ""
    /\ loading = FALSE
    /\ analysis = Absent
    /\ error = ""
    /\ backendStatus = Null
    /\ rateLimit = Null
    /\ countdown = 0
    /\ mounted = FALSE
    /\ healthFetches = 0
    /\ rateFetches = [o \in Origins |-> 0]
    /\ analyzeCalls = << >>
    /\ event = NoEvent
    /\ since = NoCountdown

-----------------------------------------------------------------------------
(* Effects and probes *)

\* checkRateLimit up to its first await: the fetch of /rate-limit is issued
Probed(origin) == [rateFetches EXCEPT ![origin] = @ + 1]

\* React.useEffect(() => { checkBackendHealth(); checkRateLimit(); }, [])
Mount ==
    /\ ~mounted
    /\ mounted' = TRUE
    /\ healthFetches' = healthFetches + 1
    /\ rateFetches' = Probed("startup")
    /\ event' = [type |-> "mount"]
    /\ UNCHANGED << stockName, loading, analysis, error, backendStatus,
                    rateLimit, countdown, analyzeCalls, since >>

\* checkBackendHealth after its awaits: the body, or the catch block
HealthSettled ==
    /\ healthFetches > 0
    /\ healthFetches' = healthFetches - 1
    /\ \/ \E st \in HealthStates :
            /\ backendStatus' = [status |-> st]
            /\ event' = [type |-> "health", failed |-> FALSE]
       \/ \E msg \in TransportFailures \cup {JsonFailure} :
            /\ backendStatus' = HealthOnFailure(msg)
            /\ event' = [type |-> "health", failed |-> TRUE]
    /\ UNCHANGED << stockName, loading, analysis, error, rateLimit, countdown,
                    mounted, rateFetches, analyzeCalls, since >>

\* variant of Tick: the tick that ends the countdown clears the recorded
\* rate-limit status
TickReopens ==
    /\ countdown > 0
    /\ countdown' = NextCountdown(countdown)
    /\ rateLimit' =
         IF Expired(countdown)
         THEN [is_limited |-> FALSE, message |-> Absent] ELSE rateLimit
    /\ rateFetches' =
         IF Expired(countdown) THEN Probed("expiry") ELSE rateFetches
    /\ since' =
         IF since.from > 0
         THEN [since EXCEPT !.ticks = @ + 1,
                            !.probes = @ + (IF Expired(countdown) THEN 1 ELSE 0)]
         ELSE since
    /\ event' = [type |-> "tick", expired |-> Expired(countdown)]
    /\ UNCHANGED << stockName, loading, analysis, error, backendStatus,
                    mounted, healthFetches, analyzeCalls >>

\* the setInterval callback of the countdown effect; the interval exists
\* while the rendered countdown is > 0
Tick ==
    /\ countdown > 0
    /\ countdown' = NextCountdown(countdown)
    /\ rateFetches' =
         IF Expired(countdown) THEN Probed("expiry") ELSE rateFetches
    /\ since' =
         IF since.from > 0
         THEN [since EXCEPT !.ticks = @ + 1,
                            !.probes = @ + (IF Expired(countdown) THEN 1 ELSE 0)]
         ELSE since
    /\ event' = [type |-> "tick", expired |-> Expired(countdown)]
    /\ UNCHANGED << stockName, loading, analysis, error, backendStatus,
                    rateLimit, mounted, healthFetches, analyzeCalls >>

\* the Refresh Status button, rendered inside the banner that
\* rateLimit?.is_limited shows
Refresh ==
    /\ IsLimited(rateLimit)
    /\ RateInFlight < MaxInFlight
    /\ rateFetches' = Probed("refresh")
    /\ event' = [type |-> "refresh"]
    /\ UNCHANGED << stockName, loading, analysis, error, backendStatus,
                    rateLimit, countdown, mounted, healthFetches,
                    analyzeCalls, since >>

\* variant of CountdownAfter: a running countdown is not restarted
CountdownAfterIfIdle(data) ==
    IF data # Null /\ StartsCountdown(data) /\ countdown = 0
    THEN data.seconds_remaining ELSE countdown

\* what checkRateLimit writes once its fetch has settled; data is the parsed
\* body, or Null when the fetch or the parse threw
RateLimitAfter(data) ==
    IF data = Null THEN RateLimitOnFailure(rateLimit) ELSE data

CountdownAfter(data) ==
    IF data # Null /\ StartsCountdown(data)
    THEN data.seconds_remaining ELSE countdown

SinceAfter(data) ==
    IF data # Null /\ StartsCountdown(data) /\ data.seconds_remaining > 0
    THEN [from |-> data.seconds_remaining, ticks |-> 0, probes |-> 0]
    ELSE NoCountdown

-----------------------------------------------------------------------------
(* analyzeStock *)

\* variant of Finish: a failed call fetches /analyze again by itself
FinishRetry(i, result, message) ==
    IF message # Absent
    THEN /\ analyzeCalls' = [analyzeCalls EXCEPT ![i].stage = "fetch"]
         /\ UNCHANGED << analysis, error, loading >>
    ELSE /\ analysis' = result
         /\ loading' = FALSE
         /\ analyzeCalls' = Remove(analyzeCalls, i)
         /\ UNCHANGED error

\* variant of Finish: the finally block does not clear loading
FinishStuck(i, result, message) ==
    /\ analysis' = IF result # Absent THEN result ELSE analysis
    /\ error' = IF message # Absent THEN ErrorMessage(message) ELSE error
    /\ loading' = loading
    /\ analyzeCalls' = Remove(analyzeCalls, i)

\* the end of analyzeStock for the suspended call i: setAnalysis or the
\* catch block's setError, then the finally block's setLoading(false)
Finish(i, result, message) ==
    /\ analysis' = IF result # Absent THEN result ELSE analysis
    /\ error' = IF message # Absent THEN ErrorMessage(message) ELSE error
    /\ loading' = FALSE
    /\ analyzeCalls' = Remove(analyzeCalls, i)

\* analyzeStock up to its first await
analyzeStock(how) ==
    IF IsEmptyInput(stockName)
    THEN /\ error' = EmptyInputMessage
         /\ event' = [type |-> how, sent |-> "empty"]
         /\ UNCHANGED << stockName, loading, analysis, backendStatus,
                         rateLimit, countdown, mounted, healthFetches,
                         rateFetches, analyzeCalls, since >>
    ELSE /\ loading' = TRUE
         /\ error' = ""
         /\ analysis' = Absent
         /\ analyzeCalls' =
              Append(analyzeCalls,
                     [body |-> RequestBody(stockName), stage |-> "fetch",
                      probes |-> 0, status |-> 0, thrown |-> Absent])
         /\ event' = [type |-> how, sent |-> "sent"]
         /\ UNCHANGED << stockName, backendStatus, rateLimit, countdown,
                         mounted, healthFetches, rateFetches, since >>

\* a user event that reaches no handler, or whose handler does nothing
Ignored(how) ==
    /\ event' = [type |-> how, sent |-> "refused"]
    /\ UNCHANGED << stockName, loading, analysis, error, backendStatus,
                    rateLimit, countdown, mounted, healthFetches,
                    rateFetches, analyzeCalls, since >>

\* onChange of the input box, which is disabled while loading
Type ==
    /\ mounted
    /\ ~loading
    /\ \E s \in Inputs \ {stockName} : stockName' = s
    /\ event' = [type |-> "type"]
    /\ UNCHANGED << loading, analysis, error, backendStatus, rateLimit,
                    countdown, mounted, healthFetches, rateFetches,
                    analyzeCalls, since >>

\* a click on the Analyze button: onClick runs unless the button is disabled
ClickAnalyze ==
    /\ mounted
    /\ IF ButtonDisabled(loading, backendStatus, rateLimit)
       THEN Ignored("click")
       ELSE analyzeStock("click")

\* handleKeyPress, for a key pressed in the input box (disabled while loading)
KeyPress ==
    /\ mounted
    /\ ~loading
    /\ \E key \in {"Enter", "a"} :
         IF key = "Enter" /\ KeyGate(loading, backendStatus, rateLimit)
         THEN analyzeStock("key")
         ELSE Ignored("key")

\* analyzeStock resumes after await fetch(/analyze) for the suspended call i
AnalyzeSettled(i) ==
    /\ analyzeCalls[i].stage = "fetch"
    /\ \/ \E msg \in TransportFailures :
            /\ Finish(i, Absent, msg)
            /\ event' = [type |-> "analyze",
                         done |-> [status |-> 0, parsed |-> FALSE,
                                   thrown |-> msg,
                                   probes |-> analyzeCalls[i].probes]]
            /\ UNCHANGED rateFetches
       \/ \E status \in Statuses :
            \/ /\ Finish(i, Absent, JsonFailure)
               /\ event' = [type |-> "analyze",
                            done |-> [status |-> status, parsed |-> FALSE,
                                      thrown |-> JsonFailure,
                                      probes |-> analyzeCalls[i].probes]]
               /\ UNCHANGED rateFetches
            \/ /\ status = 200
               /\ Finish(i, Payload, Absent)
               /\ event' = [type |-> "analyze",
                            done |-> [status |-> status, parsed |-> TRUE,
                                      thrown |-> Absent,
                                      probes |-> analyzeCalls[i].probes]]
               /\ UNCHANGED rateFetches
            \/ /\ status # 200
               /\ \E detail \in Details :
                    IF ProbesRateLimit(status)
                    THEN /\ rateFetches' = Probed("analyze")
                         /\ analyzeCalls' =
                              [analyzeCalls EXCEPT
                                 ![i].stage = "probe",
                                 ![i].probes = @ + 1,
                                 ![i].status = status,
                                 ![i].thrown = ThrownMessage(detail)]
                         /\ event' = [type |-> "rejected"]
                         /\ UNCHANGED << loading, analysis, error >>
                    ELSE /\ Finish(i, Absent, ThrownMessage(detail))
                         /\ event' = [type |-> "analyze",
                                      done |-> [status |-> status,
                                                parsed |-> TRUE,
                                                detail |-> detail,
                                                thrown |-> ThrownMessage(detail),
                                                probes |-> analyzeCalls[i].probes]]
                         /\ UNCHANGED rateFetches
    /\ UNCHANGED << stockName, backendStatus, rateLimit, countdown, mounted,
                    healthFetches, since >>

\* checkRateLimit after its awaits, for a probe which the startup effect,
\* the countdown or the Refresh button issued
RateSettled(origin) ==
    /\ origin # "analyze"
    /\ rateFetches[origin] > 0
    /\ rateFetches' = [rateFetches EXCEPT ![origin] = @ - 1]
    /\ \E data \in RateLimitBodies \cup {Null} :
         /\ rateLimit' = RateLimitAfter(data)
         /\ countdown' = CountdownAfter(data)
         /\ since' = SinceAfter(data)
         /\ event' = [type |-> "rate", origin |-> origin,
                      failed |-> data = Null, data |-> data]
    /\ UNCHANGED << stockName, loading, analysis, error, backendStatus,
                    mounted, healthFetches, analyzeCalls >>

\* checkRateLimit after its awaits for the probe of a 429, and then the rest
\* of the analyzeStock call i that awaited it: throw, catch, finally
RateSettledInAnalyze(i) ==
    /\ analyzeCalls[i].stage = "probe"
    /\ rateFetches["analyze"] > 0
    /\ rateFetches' = [rateFetches EXCEPT !["analyze"] = @ - 1]
    /\ \E data \in RateLimitBodies \cup {Null} :
         /\ rateLimit' = RateLimitAfter(data)
         /\ countdown' = CountdownAfter(data)
         /\ since' = SinceAfter(data)
         /\ event' = [type |-> "rate", origin |-> "analyze",
                      failed |-> data = Null, data |-> data,
                      done |-> [status |-> analyzeCalls[i].status,
                                parsed |-> TRUE,
                                thrown |-> analyzeCalls[i].thrown,
                                probes |-> analyzeCalls[i].probes]]
    /\ Finish(i, Absent, analyzeCalls[i].thrown)
    /\ UNCHANGED << stockName, backendStatus, mounted, healthFetches >>

-----------------------------------------------------------------------------
(* Specification *)

Next ==
    \/ Mount
    \/ HealthSettled
    \/ Tick
    \/ Refresh
    \/ Type
    \/ ClickAnalyze
    \/ KeyPress
    \/ \E i \in 1 .. Len(analyzeCalls) : AnalyzeSettled(i)
    \/ \E o \in Origins : RateSettled(o)
    \/ \E i \in 1 .. Len(analyzeCalls) : RateSettledInAnalyze(i)

Spec == Init /\ [][Next]_vars

-----------------------------------------------------------------------------
(* Vocabulary of the properties *)

\* an analyzeStock call is outstanding
Pending == analyzeCalls # << >>

\* the recorded health status is exactly 'healthy'
Healthy == Has(backendStatus, "status") /\ backendStatus.status = "healthy"

\* the recorded health status is 'offline'
Offline == Has(backendStatus, "status") /\ backendStatus.status = "offline"

\* the step that led here was a click on Analyze or a key press in the input
SubmitAttempt == event.type \in {"click", "key"}

\* the step that led here ended an analyzeStock call that had sent a request
Completed == Has(event, "done")

\* every character of s is white space
IsBlank(s) == \A i \in 1 .. Len(s) : SubSeq(s, i, i) \in WhiteSpace

\* the failure kind of a finished submission: the three fixed messages name
\* their kind; the generic message is RateLimited after a 429 and
\* ServerError after any other response
FailureKind(err, status) ==
    IF err = EmptyInputMessage THEN "EmptyInput"
    ELSE IF err = UnreachableMessage THEN "Unreachable"
    ELSE IF err = ApiKeyMessage THEN "MisconfiguredUpstream"
    ELSE IF status = 429 THEN "RateLimited"
    ELSE "ServerError"

-----------------------------------------------------------------------------
(* Admission gate *)

\* C1: a step starts an /analyze request only from a state whose recorded
\* health status is exactly 'healthy', whose recorded rate-limit status is
\* not limited and in which no request is Pending; a click or an Enter key
\* made when one of the three fails issues no network call at all.
C1_AdmissionGate ==
    [][ LET admissible == Healthy /\ ~IsLimited(rateLimit) /\ ~Pending
        IN  /\ Len(analyzeCalls') > Len(analyzeCalls) => admissible
            /\ (SubmitAttempt' /\ ~admissible) =>
                  /\ event'.sent = "refused"
                  /\ analyzeCalls' = analyzeCalls
                  /\ rateFetches' = rateFetches
                  /\ healthFetches' = healthFetches ]_vars

\* a click on Analyze was refused for the rate limit alone
C1_Witness ==
    /\ event.type = "click" /\ event.sent = "refused"
    /\ Healthy /\ IsLimited(rateLimit) /\ ~Pending
    /\ ~IsBlank(stockName)

\* C2: at most one /analyze request is outstanding; a submit attempt made
\* while one is Pending is refused and leaves the outstanding requests as
\* they are.
C2_SingleFlight ==
    /\ [](Len(analyzeCalls) <= 1)
    /\ [][ (Pending /\ SubmitAttempt') =>
              /\ event'.sent = "refused"
              /\ analyzeCalls' = analyzeCalls ]_vars

\* a click on Analyze was refused for the Pending request alone
C2_Witness ==
    /\ event.type = "click" /\ event.sent = "refused"
    /\ Len(analyzeCalls) = 1 /\ loading
    /\ Healthy /\ ~IsLimited(rateLimit)

\* C3: a submission of an empty or white-space-only input issues no network
\* call (/analyze, /rate-limit or /health), does not enter Pending and ends
\* at once in Failed(EmptyInput).
C3_EmptyInput ==
    [][ (SubmitAttempt' /\ event'.sent # "refused" /\ IsBlank(stockName)) =>
           /\ event'.sent = "empty"
           /\ analyzeCalls' = analyzeCalls
           /\ rateFetches' = rateFetches
           /\ healthFetches' = healthFetches
           /\ ~loading'
           /\ error' = EmptyInputMessage
           /\ FailureKind(error', 0) = "EmptyInput" ]_vars

\* a white-space-only input was submitted through an open gate
C3_Witness ==
    /\ SubmitAttempt /\ event.sent = "empty"
    /\ stockName = " "
    /\ error = EmptyInputMessage /\ ~loading /\ ~Pending

-----------------------------------------------------------------------------
(* Rate-limited submissions *)

\* C4 as stated: every 429 response ends the submission in
\* Failed(RateLimited) after exactly one /rate-limit probe, whatever its body.
C4_Every429 ==
    (Completed /\ event.done.status = 429) =>
        /\ event.done.probes = 1
        /\ FailureKind(error, 429) = "RateLimited"

\* C4 amended: a 429 response whose body parses as JSON makes the submission
\* issue exactly one /rate-limit probe and ends it Failed, with the result
\* and Pending cleared; the failure is RateLimited, carrying the detail (or
\* the generic label), when the detail contains neither 'API key' nor
\* 'Failed to fetch', MisconfiguredUpstream when it contains 'API key' only,
\* and Unreachable when it contains 'Failed to fetch'.
C4_Parsed429 ==
    (Completed /\ event.done.status = 429 /\ event.done.parsed) =>
        LET msg == event.done.thrown
            kind == FailureKind(error, 429)
        IN  /\ event.done.probes = 1
            /\ ~loading /\ analysis = Absent /\ error # ""
            /\ IF Includes(msg, "Failed to fetch") THEN kind = "Unreachable"
               ELSE IF Includes(msg, "API key")
                    THEN kind = "MisconfiguredUpstream"
               ELSE kind = "RateLimited" /\ error = GenericPrefix \o msg

\* a 429 with a plain detail ended in Failed(RateLimited) after one probe
C4_Witness ==
    /\ Completed /\ event.done.status = 429 /\ event.done.parsed
    /\ event.done.probes = 1
    /\ error = GenericPrefix \o "Rate limit exceeded"

-----------------------------------------------------------------------------
(* Health probe *)

\* C5: a failed /health probe records 'offline'; once offline is recorded it
\* stays recorded and no /analyze request is issued, started or completed;
\* the /health probe is issued once, by the startup effect, and never again.
C5_OfflineIsTerminal ==
    /\ []( /\ (event.type = "health" /\ event.failed) => Offline
           /\ Offline => ~Pending /\ ~loading /\ analysis = Absent /\ error = ""
           /\ healthFetches <= 1
           /\ (mounted /\ backendStatus = Null) => healthFetches = 1
           /\ backendStatus # Null => healthFetches = 0 )
    /\ [][ /\ Offline => backendStatus' = backendStatus
           /\ Offline => analyzeCalls' = analyzeCalls
           /\ healthFetches' > healthFetches => ~mounted ]_vars

\* offline with a clear rate-limit status: a submit attempt was refused
C5_Witness ==
    /\ Offline
    /\ rateLimit # Null /\ ~IsLimited(rateLimit)
    /\ SubmitAttempt /\ event.sent = "refused"
    /\ ~IsBlank(stockName)

-----------------------------------------------------------------------------
(* Countdown *)

\* C6: after a probe response {is_limited: true, seconds_remaining: n}, n > 0,
\* and until the next probe result, k ticks leave the countdown at n - k; it
\* is 0 after n ticks; the tick from 1 to 0 issues one re-probe, no other
\* tick issues any, and the countdown is 0 while that re-probe is in flight.
C6_Countdown ==
    since.from > 0 =>
        /\ since.ticks <= since.from
        /\ countdown = since.from - since.ticks
        /\ since.probes = (IF since.ticks = since.from THEN 1 ELSE 0)
        /\ since.ticks = since.from =>
              /\ countdown = 0
              /\ rateFetches["expiry"] >= 1

\* a countdown of at least 2 seconds ran out and its re-probe is in flight
C6_Witness ==
    /\ since.from >= 2 /\ since.ticks = since.from
    /\ since.probes = 1 /\ countdown = 0
    /\ rateFetches["expiry"] = 1
    /\ IsLimited(rateLimit)

\* C7 as stated: when the response to a Refresh click arrives while the
\* countdown is running and reports is_limited: false, the countdown is 0
\* once the response is processed (the interval ticks, and at expiry
\* re-probes, exactly while the countdown is above 0).
C7_RefreshCancels ==
    [][ ( /\ event'.type = "rate" /\ event'.origin = "refresh"
          /\ ~event'.failed /\ ~IsLimited(rateLimit')
          /\ countdown > 0 )
        => countdown' = 0 ]_vars

\* C8: a /rate-limit probe that fails leaves the recorded status not limited
\* with the 'unavailable' message, whatever was recorded before, so that the
\* rate limit does not close the gate after it.
C8_FailOpen ==
    (event.type = "rate" /\ event.failed) =>
        /\ rateLimit = [is_limited |-> FALSE, message |-> UnavailableMessage]
        /\ ~IsLimited(rateLimit)
        /\ ~ButtonDisabled(FALSE, [status |-> "healthy"], rateLimit)
        /\ KeyGate(FALSE, [status |-> "healthy"], rateLimit)

\* a Refresh probe, issued while limited, failed while the countdown ran
C8_Witness ==
    /\ event.type = "rate" /\ event.failed /\ event.origin = "refresh"
    /\ countdown > 0
    /\ rateLimit.message = UnavailableMessage

-----------------------------------------------------------------------------
(* Controller state *)

\* C9 as stated: the controller is in exactly one of Idle, Pending,
\* Succeeded(result) and Failed(error): a result and an error are never both
\* present, and Pending holds with neither.
C9_ExactlyOneState ==
    /\ ~(analysis # Absent /\ error # "")
    /\ loading => (analysis = Absent /\ error = "")

\* C10 as stated: the stock_name of the request an accepted submission sends
\* is the input with leading and trailing white space removed.
C10_TrimmedBody ==
    (SubmitAttempt /\ event.sent = "sent") =>
        analyzeCalls[Len(analyzeCalls)].body.stock_name = Trim(stockName)

-----------------------------------------------------------------------------
(* Retries and termination *)

\* the suspended calls whose /analyze request is in flight
Fetching == {i \in 1 .. Len(analyzeCalls) : analyzeCalls[i].stage = "fetch"}

\* C11: no failure is retried: an /analyze request gets in flight only in
\* the step of an accepted submission, which issues exactly one; when a
\* submission has ended, with a result or a failure of any kind, nothing of
\* it is left in flight and loading is cleared.
C11_NoRetry ==
    /\ [](Completed => (~Pending /\ ~loading))
    /\ [][ /\ Cardinality(Fetching') > Cardinality(Fetching) =>
                (SubmitAttempt' /\ event'.sent = "sent")
           /\ (SubmitAttempt' /\ event'.sent = "sent") =>
                /\ Len(analyzeCalls') = Len(analyzeCalls) + 1
                /\ Cardinality(Fetching') = Cardinality(Fetching) + 1
           /\ (~Pending /\ Pending') =>
                (SubmitAttempt' /\ event'.sent = "sent") ]_vars

\* a submission failed, time went on, and no request is in flight
C11_Witness ==
    /\ event.type = "tick"
    /\ error = UnreachableMessage
    /\ ~Pending /\ ~loading /\ Healthy

\* every fetch that an analyzeStock call awaits settles in the end: the
\* /analyze request, and the /rate-limit probe that follows a 429
SpecLive ==
    /\ Init /\ [][Next]_vars
    /\ WF_vars(\E i \in 1 .. Len(analyzeCalls) : AnalyzeSettled(i))
    /\ WF_vars(\E i \in 1 .. Len(analyzeCalls) : RateSettledInAnalyze(i))

\* C12: if the fetches it awaits settle, a submission that set loading
\* leaves it, with a result or with an error message; a call that ends after
\* a transport failure, a non-success status or an unparsable body ends
\* Failed: an error message, no result, loading cleared, nothing in flight.
C12_LeavesPending ==
    /\ loading ~> (~loading /\ (analysis # Absent \/ error # ""))
    /\ [](Completed =>
            /\ ~loading /\ ~Pending
            /\ IF event.done.status = 200 /\ event.done.parsed
               THEN analysis = Payload /\ error = ""
               ELSE analysis = Absent /\ error # "")

\* a call whose body could not be parsed ended Failed
C12_Witness ==
    /\ Completed /\ ~event.done.parsed /\ event.done.status = 200
    /\ ~loading /\ error = GenericPrefix \o JsonFailure

-----------------------------------------------------------------------------
(* Failure kinds *)

\* C13 as stated: a submission ends in Failed(Unreachable) exactly when its
\* /analyze fetch failed at the transport level (no response, status 0 here).
C13_UnreachableIffTransport ==
    Completed =>
        (event.done.status = 0 <=> FailureKind(error, event.done.status) = "Unreachable")


\* the step that led here ended a submission on a non-success response
\* other than 429
CompletedOther == Completed /\ event.done.status \notin {0, 200, 429}

\* C14 as stated: a non-success response other than 429 ends in
\* Failed(ServerError) whose message carries the server's detail when the
\* body has one and the generic label otherwise, with no /rate-limit probe.
C14_AlwaysServerError ==
    CompletedOther =>
        /\ event.done.probes = 0
        /\ FailureKind(error, event.done.status) = "ServerError"
        /\ error = GenericPrefix \o
              (IF Has(event.done, "detail") /\ event.done.detail # Absent
               THEN event.done.detail ELSE DefaultDetail)

\* C14 amended: a non-success response other than 429 issues no /rate-limit
\* probe and ends Failed.  With a JSON body whose detail contains neither
\* 'Failed to fetch' nor 'API key' the failure is ServerError and its message
\* carries the detail, or the generic label when there is none; a detail
\* containing 'Failed to fetch' gives Unreachable, one containing 'API key'
\* (only) MisconfiguredUpstream; a body that is not JSON gives ServerError
\* with the parser's message.
C14_OtherNonSuccess ==
    CompletedOther =>
        LET kind == FailureKind(error, event.done.status)
        IN  /\ event.done.probes = 0
            /\ rateFetches["analyze"] = 0
            /\ ~loading /\ analysis = Absent
            /\ IF ~event.done.parsed
               THEN kind = "ServerError" /\ error = GenericPrefix \o JsonFailure
               ELSE LET detail == event.done.detail
                    IN  IF detail = Absent
                        THEN /\ kind = "ServerError"
                             /\ error = GenericPrefix \o DefaultDetail
                        ELSE IF Includes(detail, "Failed to fetch")
                        THEN kind = "Unreachable"
                        ELSE IF Includes(detail, "API key")
                        THEN kind = "MisconfiguredUpstream"
                        ELSE /\ kind = "ServerError"
                             /\ error = GenericPrefix \o detail

\* a 500 with a plain detail ended in Failed(ServerError) carrying it
C14_Witness ==
    /\ CompletedOther /\ event.done.parsed
    /\ event.done.detail = "Rate limit exceeded"
    /\ event.done.probes = 0
    /\ error = GenericPrefix \o "Rate limit exceeded"


\* C15 as stated: a response whose body message indicates a missing upstream
\* credential (its detail mentions the API key) ends in
\* Failed(MisconfiguredUpstream), whatever the status code.
C15_Misconfigured ==
    (Completed /\ event.done.status \notin {0, 200} /\ event.done.parsed
        /\ Includes(event.done.thrown, "API key"))
    => FailureKind(error, event.done.status) = "MisconfiguredUpstream"

-----------------------------------------------------------------------------
(* The rendering of a result: tier, guidance and polarity.  The analysis is *)
(* here the payload object itself; the specifications above keep it opaque. *)

\* the upper end of the confidence scale
MaxConfidence == 100

\* consensus_recommendation: the three labels and one other value
Labels == {"BUY", "SELL", "HOLD", "NEUTRAL"}

\* the payloads of a successful /analyze, as far as the rendering reads them
ViewPayloads ==
    [consensus_confidence : 0 .. MaxConfidence, consensus_recommendation : Labels]

\* variant of TierLabel: the lower bound of each tier is excluded
TierLabelOpen(c) ==
    IF c > 75 THEN "STRONG"
    ELSE IF c > 60 THEN "MODERATE-STRONG"
    ELSE IF c > 45 THEN "MODERATE"
    ELSE IF c > 30 THEN "WEAK"
    ELSE "STRONG CAUTION"

\* the tier label of the recommendation badge
TierLabel(c) ==
    IF c >= 75 THEN "STRONG"
    ELSE IF c >= 60 THEN "MODERATE-STRONG"
    ELSE IF c >= 45 THEN "MODERATE"
    ELSE IF c >= 30 THEN "WEAK"
    ELSE "STRONG CAUTION"

\* variant of GuidanceBlocks: the upper bounds of the blocks are included
GuidanceBlocksClosed(c, rec) ==
    {b \in {"STRONG BUY", "STRONG HOLD", "MODERATE HOLD", "CONSIDER SELLING",
            "STRONG SELL"} :
        \/ b = "STRONG BUY" /\ c >= 75 /\ rec = "BUY"
        \/ b = "STRONG HOLD" /\ c >= 60 /\ c <= 75
        \/ b = "MODERATE HOLD" /\ c >= 45 /\ c <= 60
        \/ b = "CONSIDER SELLING" /\ c >= 30 /\ c <= 45
        \/ b = "STRONG SELL" /\ c <= 30}

\* the guidance blocks that are rendered, each named by its headline
GuidanceBlocks(c, rec) ==
    {b \in {"STRONG BUY", "STRONG HOLD", "MODERATE HOLD", "CONSIDER SELLING",
            "STRONG SELL"} :
        \/ b = "STRONG BUY" /\ c >= 75 /\ rec = "BUY"
        \/ b = "STRONG HOLD" /\ c >= 60 /\ c < 75
        \/ b = "MODERATE HOLD" /\ c >= 45 /\ c < 60
        \/ b = "CONSIDER SELLING" /\ c >= 30 /\ c < 45
        \/ b = "STRONG SELL" /\ c < 30}

getRecommendationStyle(rec) ==
    IF rec = "BUY" \/ rec = "HOLD"
    THEN [color |-> "text-green-400", bg |-> "bg-green-500/20", icon |-> "ThumbsUp"]
    ELSE IF rec = "SELL"
    THEN [color |-> "text-red-400", bg |-> "bg-red-500/20", icon |-> "ThumbsDown"]
    ELSE [color |-> "text-yellow-400", bg |-> "bg-yellow-500/20", icon |-> "Info"]

\* variant of BorderClass: HOLD is not rendered as positive
BorderClassBuyOnly(rec) ==
    IF rec = "BUY" THEN "border-green-400/50" ELSE "border-red-400/50"

\* the border of the result card and of the badge
BorderClass(rec) ==
    IF rec = "BUY" \/ rec = "HOLD"
    THEN "border-green-400/50" ELSE "border-red-400/50"

\* the state after a submission has succeeded with payload p
InitView ==
    /\ stockName = "A"
    /\ loading = FALSE
    /\ analysis \in ViewPayloads
    /\ error = ""
    /\ backendStatus = [status |-> "healthy"]
    /\ rateLimit = [is_limited |-> FALSE, message |-> Absent]
    /\ countdown = 0
    /\ mounted = TRUE
    /\ healthFetches = 0
    /\ rateFetches = [o \in Origins |-> 0]
    /\ analyzeCalls = << >>
    /\ event = [type |-> "analyze",
                done |-> [status |-> 200, parsed |-> TRUE, thrown |-> Absent,
                          probes |-> 0]]
    /\ since = NoCountdown

\* the {analysis && (...)} part of the render
RenderResult ==
    /\ event.type # "render"
    /\ event' =
         [type |-> "render",
          tier |-> TierLabel(analysis.consensus_confidence),
          guidance |-> GuidanceBlocks(analysis.consensus_confidence,
                                      analysis.consensus_recommendation),
          style |-> getRecommendationStyle(analysis.consensus_recommendation),
          border |-> BorderClass(analysis.consensus_recommendation)]
    /\ UNCHANGED << stockName, loading, analysis, error, backendStatus,
                    rateLimit, countdown, mounted, healthFetches,
                    rateFetches, analyzeCalls, since >>

\* a further submission succeeds with another payload
NextResult ==
    /\ event.type = "render"
    /\ \E p \in ViewPayloads \ {analysis} : analysis' = p
    /\ event' = [type |-> "analyze",
                 done |-> [status |-> 200, parsed |-> TRUE, thrown |-> Absent,
                           probes |-> 0]]
    /\ UNCHANGED << stockName, loading, error, backendStatus, rateLimit,
                    countdown, mounted, healthFetches, rateFetches,
                    analyzeCalls, since >>

NextView == RenderResult \/ NextResult

SpecView == InitView /\ [][NextView]_vars

\* the step that led here rendered the result
Rendered == event.type = "render"

\* C16: every confidence c of 0..100 gets exactly the tier of its range:
\* STRONG for c >= 75, MODERATE-STRONG for 60 <= c < 75, MODERATE for
\* 45 <= c < 60, WEAK for 30 <= c < 45 and STRONG CAUTION for c < 30, the
\* values 30, 45, 60 and 75 in the higher tier, whatever the label is.
C16_Tiers ==
    Rendered =>
        LET c == analysis.consensus_confidence
        IN  /\ (75 <= c /\ c <= 100) <=> event.tier = "STRONG"
            /\ (60 <= c /\ c < 75) <=> event.tier = "MODERATE-STRONG"
            /\ (45 <= c /\ c < 60) <=> event.tier = "MODERATE"
            /\ (30 <= c /\ c < 45) <=> event.tier = "WEAK"
            /\ (0 <= c /\ c < 30) <=> event.tier = "STRONG CAUTION"

\* the boundary value 75 with a label other than BUY is in the STRONG tier
C16_Witness ==
    /\ Rendered
    /\ analysis.consensus_confidence = 75
    /\ analysis.consensus_recommendation = "SELL"
    /\ event.tier = "STRONG"

\* C17: the guidance follows the tier: STRONG with BUY gives the acquisition
\* block, MODERATE-STRONG and MODERATE their hold blocks whatever the label,
\* WEAK the partial-exit block, STRONG CAUTION the exit block; no input
\* selects more than one block.
C17_Guidance ==
    Rendered =>
        LET rec == analysis.consensus_recommendation
        IN  /\ Cardinality(event.guidance) <= 1
            /\ (event.tier = "STRONG" /\ rec = "BUY") =>
                  event.guidance = {"STRONG BUY"}
            /\ event.tier = "MODERATE-STRONG" => event.guidance = {"STRONG HOLD"}
            /\ event.tier = "MODERATE" => event.guidance = {"MODERATE HOLD"}
            /\ event.tier = "WEAK" => event.guidance = {"CONSIDER SELLING"}
            /\ event.tier = "STRONG CAUTION" => event.guidance = {"STRONG SELL"}

\* confidence 50 with SELL gets the MODERATE hold wording
C17_Witness ==
    /\ Rendered
    /\ analysis.consensus_confidence = 50
    /\ analysis.consensus_recommendation = "SELL"
    /\ event.tier = "MODERATE"
    /\ event.guidance = {"MODERATE HOLD"}

\* C18 as stated: the polarity is positive (green) for BUY and HOLD and
\* negative (red) for every other label, in the style of the recommendation
\* as in the border.
C18_TwoValued ==
    Rendered =>
        LET positive == analysis.consensus_recommendation \in {"BUY", "HOLD"}
        IN  /\ event.border =
                  (IF positive THEN "border-green-400/50" ELSE "border-red-400/50")
            /\ event.style.color =
                  (IF positive THEN "text-green-400" ELSE "text-red-400")

\* C18 amended: the border is positive for BUY and HOLD and negative for
\* every other label; the style of the recommendation (colour, background,
\* icon) is positive for BUY and HOLD, negative for SELL and neutral (yellow)
\* for any other label; both depend on the label alone, not on the confidence.
C18_Polarity ==
    Rendered =>
        LET rec == analysis.consensus_recommendation
        IN  /\ event.border =
                  (IF rec \in {"BUY", "HOLD"}
                   THEN "border-green-400/50" ELSE "border-red-400/50")
            /\ event.style.color =
                  (CASE rec \in {"BUY", "HOLD"} -> "text-green-400"
                     [] rec = "SELL" -> "text-red-400"
                     [] OTHER -> "text-yellow-400")
            /\ event.style.icon =
                  (CASE rec \in {"BUY", "HOLD"} -> "ThumbsUp"
                     [] rec = "SELL" -> "ThumbsDown"
                     [] OTHER -> "Info")

\* a low-confidence HOLD is rendered positive
C18_Witness ==
    /\ Rendered
    /\ analysis.consensus_recommendation = "HOLD"
    /\ analysis.consensus_confidence = 10
    /\ event.border = "border-green-400/50"
    /\ event.style.color = "text-green-400"

-----------------------------------------------------------------------------
(* Rate-limit status and the gate *)

\* C19 as stated: a step starts an /analyze request only when a /rate-limit
\* probe has settled and the status it recorded is not limited.
C19_ReportedNotLimited ==
    [][ Len(analyzeCalls') > Len(analyzeCalls) =>
           (rateLimit # Null /\ ~IsLimited(rateLimit)) ]_vars

\* C19 amended: a step starts an /analyze request only when no limited status
\* is recorded, and a status that is not recorded yet counts as not limited:
\* before the first /rate-limit probe has settled, a click on Analyze with a
\* non-blank input starts a request as soon as health is 'healthy'.
C19_UnknownIsOpen ==
    [][ /\ Len(analyzeCalls') > Len(analyzeCalls) =>
              (IF rateLimit = Null THEN TRUE ELSE ~rateLimit.is_limited)
        /\ ( /\ event'.type = "click"
             /\ rateLimit = Null /\ Healthy /\ ~Pending /\ ~loading
             /\ ~IsBlank(stockName) )
           => /\ event'.sent = "sent"
              /\ Len(analyzeCalls') = Len(analyzeCalls) + 1 ]_vars

\* a request was started while the startup /rate-limit probe is in flight
C19_Witness ==
    /\ event.type = "click" /\ event.sent = "sent"
    /\ rateLimit = Null /\ rateFetches["startup"] = 1
    /\ Healthy /\ Len(analyzeCalls) = 1

\* C20: the recorded status is the body of the probe response that arrived
\* last, whole, whichever probe was issued first, and no other step changes
\* it; a response that reports limited with seconds_remaining s > 0 sets the
\* countdown to s, whether the countdown is 0 or running.
C20_LastResponseWins ==
    /\ []( (event.type = "rate" /\ ~event.failed) =>
              /\ rateLimit = event.data
              /\ ( /\ event.data.is_limited
                   /\ Has(event.data, "seconds_remaining")
                   /\ event.data.seconds_remaining > 0 )
                 => countdown = event.data.seconds_remaining )
    /\ [][ event'.type # "rate" => rateLimit' = rateLimit ]_vars

\* the re-probe of an expired countdown was answered before a Refresh that
\* had been issued earlier, and restarted the countdown
C20_Witness ==
    /\ event.type = "rate" /\ ~event.failed /\ event.origin = "expiry"
    /\ rateFetches["refresh"] = 1
    /\ countdown = 2 /\ rateLimit.seconds_remaining = 2

-----------------------------------------------------------------------------
(* Range of the countdown, and what follows its expiry *)

\* C21 as stated: the countdown is an integer >= 0 in every reachable state,
\* whatever integer seconds_remaining the /rate-limit endpoint answers with
\* (0 and negative values included), after any ticks and probe responses.
C21_NonNegative == countdown \in Nat

\* the interval of the countdown effect fires while it exists, and every
\* /rate-limit fetch settles in the end; the user is free to act or not
SpecTimer ==
    /\ Init /\ [][Next]_vars
    /\ WF_vars(Tick)
    /\ WF_vars(\E o \in Origins : RateSettled(o))
    /\ WF_vars(\E i \in 1 .. Len(analyzeCalls) : RateSettledInAnalyze(i))

\* the countdown ran out in the step that led here: checkRateLimit was
\* called by the interval callback
ExpiryProbe == event.type = "tick" /\ event.expired

\* C22 as stated: from every state whose recorded status is limited the
\* interval issues a /rate-limit re-probe later on, unless the status stops
\* being limited before; also after a limited response whose
\* seconds_remaining is 0 or absent.
C22_AutoReprobe ==
    IsLimited(rateLimit) ~> (ExpiryProbe \/ ~IsLimited(rateLimit))

\* the countdown that a limited response started has run out, and no
\* /rate-limit response has been processed since: the re-probe of the expiry
\* is in flight
AwaitingReprobe == since.from > 0 /\ since.ticks = since.from

\* C23: a tick, the one that ends the countdown included, leaves the recorded
\* rate-limit status as it is; from the expiry of a countdown until the next
\* /rate-limit response is processed the status is limited, the button is
\* disabled and the Enter key is ignored; no step starts an /analyze request
\* while the status is limited; and a limited status stops being limited
\* only in a step that processes a /rate-limit response reporting
\* is_limited: false or a failed /rate-limit probe.
C23_ExpiryKeepsGateClosed ==
    /\ [](AwaitingReprobe =>
            /\ countdown = 0
            /\ IsLimited(rateLimit)
            /\ ButtonDisabled(loading, backendStatus, rateLimit)
            /\ ~KeyGate(loading, backendStatus, rateLimit))
    /\ [][ /\ event'.type = "tick" => rateLimit' = rateLimit
           /\ IsLimited(rateLimit) =>
                 /\ Len(analyzeCalls') <= Len(analyzeCalls)
                 /\ SubmitAttempt' => event'.sent = "refused"
           /\ (IsLimited(rateLimit) /\ ~IsLimited(rateLimit')) =>
                 /\ event'.type = "rate"
                 /\ IF event'.failed THEN TRUE ELSE ~event'.data.is_limited
         ]_vars

\* the countdown has run out, its re-probe is still in flight, and a click
\* on Analyze with a name typed and a healthy backend was refused
C23_Witness ==
    /\ AwaitingReprobe /\ countdown = 0
    /\ rateFetches["expiry"] = 1
    /\ event.type = "click" /\ event.sent = "refused"
    /\ Healthy /\ ~loading /\ ~IsBlank(stockName) /\ stockName # ""

-----------------------------------------------------------------------------
(* Totality of the guidance *)

\* C24 as stated: for every confidence of 0..100 and every label (BUY, SELL,
\* HOLD or another) the rendered result shows exactly one guidance block.
C24_GuidanceTotal ==
    Rendered => Cardinality(event.guidance) = 1

====
